---------------------------- MODULE Spec2Model ----------------------------
(***************************************************************************)
(* A model of the CosmosDB policy adapter of src/adapter.go: the adapter   *)
(* object (its filtered flag), the document collection it reads and writes *)
(* through the cosmos client, and every exported operation of the adapter. *)
(*                                                                         *)
(* Representation.                                                         *)
(*  - A policy type is the sequence of its characters (<<"p","2">> is      *)
(*    "p2"), because loadPolicyLine slices it (key[:1]).                   *)
(*  - A field value is a string; "" is Go's empty string.                  *)
(*  - A CasbinRule is a record with the struct's fields.  ID is a number;  *)
(*    NoID (0) is the empty ID savePolicyLine leaves, which the store      *)
(*    replaces by an identity of its own when the document is created.     *)
(*  - A model.Model is a function from section to a function from policy   *)
(*    type to that assertion's Policy (a sequence of rules).               *)
(***************************************************************************)
EXTENDS Integers, Sequences, FiniteSets

\* ------------------------------------------------------------ bounds
\* Longest rule tuple of the one-rule runs.
MaxRuleLen == 6
\* Most documents the collection holds.
MaxDocs == 3
\* Most documents the store returns in one page of a ReadAll or a Query.
PageSize == 2

\* ------------------------------------------------------------ data
NoID == 0

SecP == <<"p">>
SecG == <<"g">>
PtP  == <<"p">>
PtP2 == <<"p", "2">>
PtG  == <<"g">>
PTypes == {PtP, PtP2, PtG}

\* Every rule tuple of at most n values in which a value is empty or the
\* letter of its position: a value in the wrong field, a gap and a short tuple
\* all show.
Letters == <<"a", "b", "c", "d", "e", "f", "g", "h", "i">>
RulesUpTo(n) ==
    UNION {{[i \in 1..k |-> IF i \in S THEN Letters[i] ELSE ""] : S \in SUBSET (1..k)} :
           k \in 0..n}

Min(S) == CHOOSE x \in S : \A y \in S : x <= y

\* ------------------------------------------------------------ pure functions
\* savePolicyLine with an off-by-one at V2: it takes the tuple's second value
\* whenever the tuple has two.
savePolicyLine_shifted(ptype, rule) ==
    [ID    |-> NoID,
     PType |-> ptype,
     V0 |-> IF Len(rule) > 0 THEN rule[1] ELSE "",
     V1 |-> IF Len(rule) > 1 THEN rule[2] ELSE "",
     V2 |-> IF Len(rule) > 1 THEN rule[2] ELSE "",
     V3 |-> IF Len(rule) > 3 THEN rule[4] ELSE "",
     V4 |-> IF Len(rule) > 4 THEN rule[5] ELSE "",
     V5 |-> IF Len(rule) > 5 THEN rule[6] ELSE ""]

\* savePolicyLine: the document of a rule tuple; values past the sixth are
\* dropped, fields past the tuple's length stay empty.
savePolicyLine(ptype, rule) ==
    [ID    |-> NoID,
     PType |-> ptype,
     V0 |-> IF Len(rule) > 0 THEN rule[1] ELSE "",
     V1 |-> IF Len(rule) > 1 THEN rule[2] ELSE "",
     V2 |-> IF Len(rule) > 2 THEN rule[3] ELSE "",
     V3 |-> IF Len(rule) > 3 THEN rule[4] ELSE "",
     V4 |-> IF Len(rule) > 4 THEN rule[5] ELSE "",
     V5 |-> IF Len(rule) > 5 THEN rule[6] ELSE ""]

\* lineTokens that never reads V5: a rule of six values loads as five.
lineTokens_dropsLast(line) ==
    IF line.V0 = "" THEN <<>>
    ELSE IF line.V1 = "" THEN <<line.V0>>
    ELSE IF line.V2 = "" THEN <<line.V0, line.V1>>
    ELSE IF line.V3 = "" THEN <<line.V0, line.V1, line.V2>>
    ELSE IF line.V4 = "" THEN <<line.V0, line.V1, line.V2, line.V3>>
    ELSE <<line.V0, line.V1, line.V2, line.V3, line.V4>>

\* The tokens loadPolicyLine collects: the fields up to the first empty one
\* (each "else goto LineEnd").
lineTokens(line) ==
    IF line.V0 = "" THEN <<>>
    ELSE IF line.V1 = "" THEN <<line.V0>>
    ELSE IF line.V2 = "" THEN <<line.V0, line.V1>>
    ELSE IF line.V3 = "" THEN <<line.V0, line.V1, line.V2>>
    ELSE IF line.V4 = "" THEN <<line.V0, line.V1, line.V2, line.V3>>
    ELSE IF line.V5 = "" THEN <<line.V0, line.V1, line.V2, line.V3, line.V4>>
    ELSE <<line.V0, line.V1, line.V2, line.V3, line.V4, line.V5>>

\* key[:1]
lineSec(line) == SubSeq(line.PType, 1, 1)

\* model[sec][key] is an assertion of the model: the section is declared and
\* the type is declared in it.
Declared(m, sec, key) == sec \in DOMAIN m /\ key \in DOMAIN m[sec]

\* loadPolicyLine: the model with the line's tokens appended to the Policy of
\* model[sec][key].  key[:1] panics on an empty type (slice bounds out of
\* range), and model[sec][key] is nil for a section or a type the model does
\* not declare, so that writing its Policy panics (nil dereference); the model
\* is then as the lines before left it.
loadPolicyLine(line, m) ==
    LET key == line.PType
        sec == lineSec(line)
    IN  IF key = <<>> \/ ~Declared(m, sec, key)
        THEN [panic |-> TRUE, model |-> m]
        ELSE [panic |-> FALSE, model |-> [m EXCEPT ![sec][key] = Append(@, lineTokens(line))]]

\* The loop "for _, line := range lines { loadPolicyLine(line, model) }"; a
\* panic ends it.
RECURSIVE loadLines(_, _)
loadLines(ls, m) ==
    IF ls = <<>> THEN [panic |-> FALSE, model |-> m]
    ELSE LET r == loadPolicyLine(Head(ls), m)
         IN  IF r.panic THEN r ELSE loadLines(Tail(ls), r.model)

\* The i-th field (0-based) of a document, as the query "root.v<i>" reads it;
\* a document has no v6 or beyond, and a comparison with a missing property
\* is never true.
HasField(i) == i \in 0..5
Field(line, i) ==
    CASE i = 0 -> line.V0
      [] i = 1 -> line.V1
      [] i = 2 -> line.V2
      [] i = 3 -> line.V3
      [] i = 4 -> line.V4
      [] i = 5 -> line.V5

\* ------------------------------------------------------------ models
\* The assertions of the caller's model: section "p" declares p and p2,
\* section "g" declares g.
Sections == {SecP, SecG}
PTypesOf(sec) == IF sec = SecP THEN {PtP, PtP2} ELSE {PtG}

MkModel(p, p2, g) ==
    [sec \in Sections |->
        IF sec = SecP THEN [pt \in {PtP, PtP2} |-> IF pt = PtP THEN p ELSE p2]
        ELSE [pt \in {PtG} |-> g]]

EmptyModel == MkModel(<<>>, <<>>, <<>>)

\* An empty model that declares p alone: no p2, no section "g".
OnlyP == [sec \in {SecP} |-> [pt \in {PtP} |-> <<>>]]

\* The empty models a load is called with.
LoadModels == {EmptyModel, OnlyP}

\* The rule of n values a, b, a, b, ...
AB(n) == [i \in 1..n |-> IF i % 2 = 1 THEN "a" ELSE "b"]

\* The models SavePolicy is called with: empty, one rule under every type,
\* the same rule twice.
Models ==
    { EmptyModel,
      MkModel(<<AB(2)>>, <<AB(1)>>, <<AB(1)>>),
      MkModel(<<AB(1), AB(1)>>, <<>>, <<>>) }

\* The (section, type, rule) triples a model holds.
ModelPairs(m) ==
    UNION { UNION { {<<sec, pt, m[sec][pt][i]>> : i \in DOMAIN m[sec][pt]} :
                    pt \in DOMAIN m[sec] } : sec \in DOMAIN m }

\* The number of rules of a model.
RECURSIVE SumLen(_, _)
SumLen(f, S) ==
    IF S = {} THEN 0
    ELSE LET x == CHOOSE y \in S : TRUE IN Len(f[x]) + SumLen(f, S \ {x})
ModelSize(m) == SumLen(m[SecP], DOMAIN m[SecP]) + SumLen(m[SecG], DOMAIN m[SecG])

\* ------------------------------------------------------------ SavePolicy's lines
\* Go ranges over a map in an unspecified order: every order of the types of
\* a section is possible.
Orders(S) == {o \in [1..Cardinality(S) -> S] : \A i, j \in DOMAIN o : i # j => o[i] # o[j]}

RuleLines(ptype, policy) == [i \in DOMAIN policy |-> savePolicyLine(ptype, policy[i])]

RECURSIVE SectionLines(_, _)
SectionLines(assertions, order) ==
    IF order = <<>> THEN <<>>
    ELSE RuleLines(Head(order), assertions[Head(order)]) \o SectionLines(assertions, Tail(order))

\* The lines SavePolicy builds: the rules of model["p"], then those of
\* model["g"].
SaveLines(m) ==
    {SectionLines(m[SecP], op) \o SectionLines(m[SecG], og) :
        op \in Orders(DOMAIN m[SecP]), og \in Orders(DOMAIN m[SecG])}

\* ------------------------------------------------------------ the store
\* The documents of S in the order of their identities.
RECURSIVE SortByID(_)
SortByID(S) ==
    IF S = {} THEN <<>>
    ELSE LET d == CHOOSE x \in S : \A y \in S : x.ID <= y.ID
         IN  <<d>> \o SortByID(S \ {d})

\* One page of a read: at most PageSize documents of S past the continuation
\* token, and the token of the next page (NoID, Go's "", when none is left).
Page(S, token) ==
    LET rest == SortByID({d \in S : d.ID > token})
        n    == IF Len(rest) > PageSize THEN PageSize ELSE Len(rest)
    IN  [lines |-> SubSeq(rest, 1, n),
         continuation |-> IF Len(rest) > PageSize THEN rest[n].ID ELSE NoID]

\* The identity the store gives a created document.
FreshID(S) == Min({i \in 1..(Cardinality(S) + 1) : \A d \in S : d.ID # i})

\* ------------------------------------------------------------ queries
\* A filter handed to LoadFilteredPolicy: nil, or a cosmos.SqlQuerySpec (here
\* the query "SELECT * FROM root WHERE root.v<field> = @value"), or a value of
\* another type.
NilFilter   == [isNil |-> TRUE,  isQuery |-> FALSE, field |-> 0, value |-> ""]
OtherFilter == [isNil |-> FALSE, isQuery |-> FALSE, field |-> 0, value |-> ""]
Filters ==
    {NilFilter, OtherFilter, [isNil |-> FALSE, isQuery |-> TRUE, field |-> 0, value |-> "a"]}

\* The documents a load's read selects, across all partitions.
Selected(S, filter) ==
    IF filter.isNil THEN S
    ELSE {d \in S : HasField(filter.field) /\ Field(d, filter.field) = filter.value}

\* RemovePolicy's query: root.pType = @pType AND root.v<i> = @v<i> for every
\* index i of the rule, in the partition of ptype.
RemovePolicyMatches(S, ptype, rule) ==
    {d \in S : /\ d.PType = ptype
               /\ \A i \in 0..(Len(rule) - 1) : HasField(i) /\ Field(d, i) = rule[i + 1]}

\* RemoveFilteredPolicy's selector: one entry per field v0..v5 that falls in
\* [fieldIndex, fieldIndex + len(fieldValues)) and whose value is not empty.
selector(fieldIndex, fieldValues) ==
    [i \in {j \in 0..5 : /\ fieldIndex <= j
                         /\ j < fieldIndex + Len(fieldValues)
                         /\ fieldValues[j - fieldIndex + 1] # ""}
        |-> fieldValues[i - fieldIndex + 1]]

\* RemoveFilteredPolicy's query: root.pType = @pType AND root.<key> = @<key>
\* for every key of the selector, in the partition of ptype.
RemoveFilteredMatches(S, ptype, fieldIndex, fieldValues) ==
    LET sel == selector(fieldIndex, fieldValues)
    IN  {d \in S : /\ d.PType = ptype
                   /\ \A i \in DOMAIN sel : Field(d, i) = sel[i]}

\* ------------------------------------------------------------ state
VARIABLES
    phase,       \* the process: "new" (until a constructor returns), "ready",
                 \* "fatal" (log.Fatalf), "panic"; a halted process calls
                 \* nothing more
    ctor,        \* the constructor that built the adapter
    dbExists,    \* the store: the database exists
    collExists,  \* the store: the collection exists
    docs,        \* the store: the documents of the collection
    filtered,    \* adapter.filtered
    op,          \* the operation called last
    args,        \* its arguments (a constructor's: what the store answered it)
    pre,         \* the store and the flag as they were when it was called
    ret,         \* what it returned ("pending" while it runs)
    pc,          \* where the running operation stands
    lines,       \* SavePolicy: the lines still to insert
    policies,    \* RemovePolicy, RemoveFilteredPolicy: the matches still to delete
    plan,        \* the lines to insert, or the matches to delete, as first computed
    ldFilter,    \* LoadFilteredPolicy: the filter
    ldLines,     \* LoadFilteredPolicy: the lines read so far
    ldToken,     \* LoadFilteredPolicy: the continuation token
    model,       \* the caller's model a load fills (as passed, until the lines
                 \* are loaded)
    lastLoad,    \* the most recent load: "none", "nil" or "filter"
    saved,       \* the model of the last completed SavePolicy, no write since
    rdPc,        \* a second client running LoadPolicy: its position
    rdLines,     \* the lines it has read so far
    rdToken,     \* its continuation token
    rdRet,       \* what its load returned
    rdAfterDrop, \* every read of its load came after the running save's drop
    lnPType,     \* the one-rule runs: the policy type chosen
    lnRule,      \* the one-rule runs: the rule tuple chosen
    lnFirst      \* the one-rule runs: the rule is inserted first in its type

storeVars  == <<dbExists, collExists, docs>>
callVars   == <<op, args, pre, ret, pc>>
localVars  == <<lines, policies, plan, ldFilter, ldLines, ldToken, model>>
ghostVars  == <<ctor, lastLoad, saved>>
readerVars == <<rdPc, rdLines, rdToken, rdRet, rdAfterDrop>>
lineVars   == <<lnPType, lnRule, lnFirst>>
vars == <<phase, filtered, storeVars, callVars, localVars, ghostVars, readerVars, lineVars>>

RetNil      == "nil"
RetPending  == "pending"
ErrFiltered == "cannot save a filtered policy"
StoreErrors == {"error: Collection.Delete", "error: Collections.Create",
                "error: Documents.Create", "error: Documents.ReadAll",
                "error: Documents.Query", "error: Document.Delete"}

NoSaved == [valid |-> FALSE, model |-> EmptyModel]

ReaderOff == /\ rdPc = "idle" /\ rdLines = <<>> /\ rdToken = NoID
             /\ rdRet = RetNil /\ rdAfterDrop = FALSE
LineOff   == /\ lnPType = <<>> /\ lnRule = <<>> /\ lnFirst = FALSE
CallOff   == /\ op = "none" /\ args = <<>> /\ ret = RetNil /\ pc = "idle"
             /\ pre = [docs |-> {}, coll |-> FALSE, filtered |-> FALSE]
LocalOff  == /\ lines = <<>> /\ policies = <<>> /\ plan = <<>>
             /\ ldFilter = NilFilter /\ ldLines = <<>> /\ ldToken = NoID
             /\ model = EmptyModel

\* What the collection may hold before the adapter is built.
InitStores == { {}, {[savePolicyLine(PtP, AB(2)) EXCEPT !.ID = 1]} }

Init ==
    /\ phase = "new" /\ ctor = "none"
    /\ dbExists \in BOOLEAN /\ collExists \in BOOLEAN
    /\ collExists => dbExists
    /\ docs \in (IF collExists THEN InitStores ELSE {{}})
    /\ filtered = FALSE /\ lastLoad = "none" /\ saved = NoSaved
    /\ CallOff /\ LocalOff /\ ReaderOff /\ LineOff

\* ------------------------------------------------------------ construction
\* What a Read of the database or of the collection may answer.
ReadAnswers(exists) == IF exists THEN {"ok", "error"} ELSE {"notfound", "error"}

\* What the store has answered a constructor so far.
NoAnswers == [connect |-> FALSE, dbRead |-> "none", dbCreate |-> "none",
              collRead |-> "none", collCreate |-> "none"]

\* The constructor returns: NewFilteredAdapter sets the flag on what NewAdapter
\* returns.
Returns ==
    /\ phase' = "ready" /\ pc' = "idle"
    /\ filtered' = (ctor = "NewFilteredAdapter")

Halts(how) == phase' = how /\ pc' = "idle" /\ filtered' = filtered

\* NewAdapter (kind names the constructor called) up to the first call of the
\* store, db.Read in createDatabaseIfNotExist: cosmos.New fails and log.Fatalf
\* runs, or the database is read.
Construct(kind) ==
    /\ phase = "new" /\ pc = "idle"
    /\ ctor' = kind /\ op' = kind
    /\ \E connect \in BOOLEAN :
         IF ~connect
         THEN phase' = "fatal" /\ pc' = "idle" /\ args' = NoAnswers
         ELSE \E read \in ReadAnswers(dbExists) :
                /\ args' = [NoAnswers EXCEPT !.connect = TRUE, !.dbRead = read]
                /\ CASE read = "ok" ->
                           phase' = phase /\ pc' = "New:collection.Read"
                     [] read = "notfound" ->
                           phase' = phase /\ pc' = "New:Databases.Create"
                     [] OTHER -> phase' = "fatal" /\ pc' = "idle"
    /\ UNCHANGED <<filtered, storeVars, pre, ret, localVars, lastLoad, saved,
                   readerVars, lineVars>>

NewAdapter == Construct("NewAdapter")

NewFilteredAdapter == Construct("NewFilteredAdapter")

\* createDatabaseIfNotExist on "not found": Databases().Create is called and
\* its result dropped; the test that follows reads err, which there is the
\* read's own not-found error and is never nil, so log.Fatalf runs.
createDatabaseIfNotExist_Create ==
    /\ phase = "new" /\ pc = "New:Databases.Create"
    /\ \E created \in BOOLEAN :
         /\ dbExists' = (dbExists \/ created)
         /\ args' = [args EXCEPT !.dbCreate = IF created THEN "ok" ELSE "failed"]
    /\ Halts("fatal")
    /\ UNCHANGED <<collExists, docs, op, pre, ret, localVars, ghostVars,
                   readerVars, lineVars>>

\* createCollectionIfNotExist up to collection.Read.
createCollectionIfNotExist_Read ==
    /\ phase = "new" /\ pc = "New:collection.Read"
    /\ \E read \in ReadAnswers(collExists) :
         /\ args' = [args EXCEPT !.collRead = read]
         /\ CASE read = "ok" -> Returns
              [] read = "notfound" ->
                    phase' = phase /\ pc' = "New:Collections.Create" /\ filtered' = filtered
              [] OTHER -> Halts("fatal")
    /\ UNCHANGED <<storeVars, op, pre, ret, localVars, ghostVars, readerVars, lineVars>>

\* createCollectionIfNotExist on "not found": a.db.Collections().Create, and
\* a.db is still nil (NewAdapter sets it after this call): the call through
\* the nil database either panics or goes through, as the client library has
\* it.
createCollectionIfNotExist_Create ==
    /\ phase = "new" /\ pc = "New:Collections.Create"
    /\ \E nilDb \in {"panic", "works"}, created \in BOOLEAN :
         IF nilDb = "panic"
         THEN /\ Halts("panic") /\ collExists' = collExists
              /\ args' = [args EXCEPT !.collCreate = "panic"]
         ELSE IF created /\ dbExists
         THEN /\ Returns /\ collExists' = TRUE
              /\ args' = [args EXCEPT !.collCreate = "ok"]
         ELSE /\ Halts("fatal") /\ collExists' = collExists
              /\ args' = [args EXCEPT !.collCreate = "failed"]
    /\ UNCHANGED <<dbExists, docs, op, pre, ret, localVars, ghostVars,
                   readerVars, lineVars>>

\* ------------------------------------------------------------ calls
\* The caller is sequential: it calls an operation when the last has returned.
Idle == phase = "ready" /\ pc = "idle"

Snapshot == [docs |-> docs, coll |-> collExists, filtered |-> filtered]

\* IsFiltered
IsFiltered == filtered

\* ------------------------------------------------------------ loads
\* One read of a load (ReadAll, or Query with the filter), from token on, with
\* sofar the lines of the pages before: the lines so far and the next token.
LoadRead(S, filter, token, sofar) ==
    LET pg == Page(Selected(S, filter), token)
    IN  [lines |-> sofar \o pg.lines, continuation |-> pg.continuation]

ReadError(filter) ==
    IF filter.isNil THEN "error: Documents.ReadAll" ELSE "error: Documents.Query"

\* The rest of LoadFilteredPolicy(m, filter) from a read on: the read fails and
\* the load returns its error, or it leaves a token and the loop goes on, or it
\* was the last page and every line is loaded into the model; a line that
\* panics halts the process before the load returns.
LoadAfterRead(ok, m, filter, token, sofar) ==
    IF ok /\ collExists
    THEN LET r == LoadRead(docs, filter, token, sofar)
         IN  /\ ldLines' = r.lines
             /\ ldToken' = r.continuation
             /\ IF r.continuation # NoID
                THEN /\ pc' = "Load:more" /\ ret' = RetPending
                     /\ model' = m /\ phase' = phase
                ELSE LET ld == loadLines(r.lines, m)
                     IN  /\ pc' = "idle" /\ model' = ld.model
                         /\ IF ld.panic
                            THEN phase' = "panic" /\ ret' = RetPending
                            ELSE phase' = phase /\ ret' = RetNil
    ELSE /\ ldLines' = sofar /\ ldToken' = token
         /\ pc' = "idle" /\ ret' = ReadError(filter)
         /\ model' = m /\ phase' = phase

\* LoadFilteredPolicy that sets the flag on a filter and never clears it.
LoadFilteredPolicy_keepsFlag(m, filter) ==
    /\ Idle
    /\ op' = "LoadFilteredPolicy" /\ args' = [model |-> m] /\ pre' = Snapshot
    /\ ldFilter' = filter
    /\ lastLoad' = IF filter.isNil THEN "nil" ELSE "filter"
    /\ IF ~filter.isNil /\ ~filter.isQuery
       THEN /\ phase' = "panic" /\ ret' = RetPending /\ model' = m
            /\ UNCHANGED <<filtered, pc, ldLines, ldToken>>
       ELSE /\ filtered' = (filtered \/ ~filter.isNil)
            /\ \E ok \in BOOLEAN : LoadAfterRead(ok, m, filter, NoID, <<>>)
    /\ lines' = <<>> /\ policies' = <<>> /\ plan' = <<>>
    /\ UNCHANGED <<storeVars, ctor, saved, readerVars, lineVars>>

\* LoadFilteredPolicy(model, filter), up to its first read.  The type
\* assertion filter.(cosmos.SqlQuerySpec) panics on a filter of another type,
\* before the flag is written.
LoadFilteredPolicy(m, filter) ==
    /\ Idle
    /\ op' = "LoadFilteredPolicy" /\ args' = [model |-> m] /\ pre' = Snapshot
    /\ ldFilter' = filter
    /\ lastLoad' = IF filter.isNil THEN "nil" ELSE "filter"
    /\ IF ~filter.isNil /\ ~filter.isQuery
       THEN /\ phase' = "panic" /\ ret' = RetPending /\ model' = m
            /\ UNCHANGED <<filtered, pc, ldLines, ldToken>>
       ELSE /\ filtered' = ~filter.isNil
            /\ \E ok \in BOOLEAN : LoadAfterRead(ok, m, filter, NoID, <<>>)
    /\ lines' = <<>> /\ policies' = <<>> /\ plan' = <<>>
    /\ UNCHANGED <<storeVars, ctor, saved, readerVars, lineVars>>

\* LoadPolicy(model)
LoadPolicy(m) == LoadFilteredPolicy(m, NilFilter)

\* The next turn of the continuation loop.
LoadMore ==
    /\ phase = "ready" /\ pc = "Load:more"
    /\ \E ok \in BOOLEAN : LoadAfterRead(ok, model, ldFilter, ldToken, ldLines)
    /\ UNCHANGED <<filtered, storeVars, op, args, pre, lines, policies, plan,
                   ldFilter, ghostVars, readerVars, lineVars>>

\* ------------------------------------------------------------ SavePolicy
\* What a call that is no load leaves of the last load's locals.
LoadLocalsOff ==
    /\ ldFilter' = NilFilter /\ ldLines' = <<>> /\ ldToken' = NoID
    /\ model' = EmptyModel

\* SavePolicy without the test of the filtered flag.
SavePolicy_unguarded(m) ==
    /\ Idle
    /\ ModelSize(m) <= MaxDocs
    /\ op' = "SavePolicy" /\ args' = [model |-> m] /\ pre' = Snapshot
    /\ IF FALSE
       THEN /\ ret' = ErrFiltered /\ pc' = "idle"
            /\ UNCHANGED storeVars
       ELSE \E ok \in BOOLEAN :
              IF ok /\ collExists
              THEN /\ collExists' = FALSE /\ docs' = {}
                   /\ pc' = "SavePolicy:create" /\ ret' = RetPending
                   /\ UNCHANGED dbExists
              ELSE /\ ret' = "error: Collection.Delete" /\ pc' = "idle"
                   /\ UNCHANGED storeVars
    /\ lines' = <<>> /\ policies' = <<>> /\ plan' = <<>> /\ LoadLocalsOff
    /\ saved' = NoSaved
    /\ rdAfterDrop' = FALSE
    /\ UNCHANGED <<phase, filtered, ctor, lastLoad,
                   rdPc, rdLines, rdToken, rdRet, lineVars>>

\* SavePolicy whose drop leaves the documents in place.
SavePolicy_keepsDocs(m) ==
    /\ Idle
    /\ ModelSize(m) <= MaxDocs
    /\ op' = "SavePolicy" /\ args' = [model |-> m] /\ pre' = Snapshot
    /\ IF filtered
       THEN /\ ret' = ErrFiltered /\ pc' = "idle"
            /\ UNCHANGED storeVars
       ELSE \E ok \in BOOLEAN :
              IF ok /\ collExists
              THEN /\ collExists' = FALSE /\ docs' = docs
                   /\ pc' = "SavePolicy:create" /\ ret' = RetPending
                   /\ UNCHANGED dbExists
              ELSE /\ ret' = "error: Collection.Delete" /\ pc' = "idle"
                   /\ UNCHANGED storeVars
    /\ lines' = <<>> /\ policies' = <<>> /\ plan' = <<>> /\ LoadLocalsOff
    /\ saved' = NoSaved
    /\ rdAfterDrop' = FALSE
    /\ UNCHANGED <<phase, filtered, ctor, lastLoad,
                   rdPc, rdLines, rdToken, rdRet, lineVars>>

\* SavePolicy(model) up to the collection's Delete, the first half of
\* dropCollection.
SavePolicy(m) ==
    /\ Idle
    /\ ModelSize(m) <= MaxDocs
    /\ op' = "SavePolicy" /\ args' = [model |-> m] /\ pre' = Snapshot
    /\ IF filtered
       THEN /\ ret' = ErrFiltered /\ pc' = "idle"
            /\ UNCHANGED storeVars
       ELSE \E ok \in BOOLEAN :
              IF ok /\ collExists
              THEN /\ collExists' = FALSE /\ docs' = {}
                   /\ pc' = "SavePolicy:create" /\ ret' = RetPending
                   /\ UNCHANGED dbExists
              ELSE /\ ret' = "error: Collection.Delete" /\ pc' = "idle"
                   /\ UNCHANGED storeVars
    /\ lines' = <<>> /\ policies' = <<>> /\ plan' = <<>> /\ LoadLocalsOff
    /\ saved' = NoSaved
    /\ rdAfterDrop' = FALSE
    /\ UNCHANGED <<phase, filtered, ctor, lastLoad,
                   rdPc, rdLines, rdToken, rdRet, lineVars>>

\* The second half of dropCollection, Collections().Create, and the two loops
\* that build the lines.
SaveCreate ==
    /\ phase = "ready" /\ pc = "SavePolicy:create"
    /\ \E ok \in BOOLEAN :
         IF ok /\ dbExists
         THEN /\ collExists' = TRUE
              /\ \E ls \in SaveLines(args.model) :
                   /\ lines' = ls /\ plan' = ls
                   /\ IF ls = <<>>
                      THEN /\ pc' = "idle" /\ ret' = RetNil
                           /\ saved' = [valid |-> TRUE, model |-> args.model]
                      ELSE /\ pc' = "SavePolicy:insert" /\ ret' = RetPending
                           /\ saved' = saved
         ELSE /\ ret' = "error: Collections.Create" /\ pc' = "idle"
              /\ UNCHANGED <<collExists, lines, plan, saved>>
    /\ UNCHANGED <<phase, filtered, dbExists, docs, op, args, pre, policies,
                   ldFilter, ldLines, ldToken, model, ctor, lastLoad,
                   readerVars, lineVars>>

\* A failed insert that is skipped: the loop goes on with the next line.
SaveInsert_skipsFailed ==
    /\ phase = "ready" /\ pc = "SavePolicy:insert"
    /\ \E ok \in BOOLEAN :
         /\ docs' = IF ok /\ collExists
                    THEN docs \cup {[Head(lines) EXCEPT !.ID = FreshID(docs)]}
                    ELSE docs
         /\ lines' = Tail(lines)
         /\ IF Tail(lines) = <<>>
            THEN /\ pc' = "idle"
                 /\ ret' = IF ok /\ collExists THEN RetNil ELSE "error: Documents.Create"
                 /\ saved' = IF ok /\ collExists
                             THEN [valid |-> TRUE, model |-> args.model] ELSE saved
            ELSE UNCHANGED <<pc, ret, saved>>
    /\ UNCHANGED <<phase, filtered, dbExists, collExists, op, args, pre, policies, plan,
                   ldFilter, ldLines, ldToken, model, ctor, lastLoad,
                   readerVars, lineVars>>

\* One turn of the insert loop: Documents().Create of the next line.
SaveInsert ==
    /\ phase = "ready" /\ pc = "SavePolicy:insert"
    /\ \E ok \in BOOLEAN :
         IF ok /\ collExists
         THEN /\ docs' = docs \cup {[Head(lines) EXCEPT !.ID = FreshID(docs)]}
              /\ lines' = Tail(lines)
              /\ IF Tail(lines) = <<>>
                 THEN /\ pc' = "idle" /\ ret' = RetNil
                      /\ saved' = [valid |-> TRUE, model |-> args.model]
                 ELSE UNCHANGED <<pc, ret, saved>>
         ELSE /\ ret' = "error: Documents.Create" /\ pc' = "idle"
              /\ UNCHANGED <<docs, lines, saved>>
    /\ UNCHANGED <<phase, filtered, dbExists, collExists, op, args, pre, policies, plan,
                   ldFilter, ldLines, ldToken, model, ctor, lastLoad,
                   readerVars, lineVars>>

\* ------------------------------------------------------------ AddPolicy
\* AddPolicy that clears the filtered flag.
AddPolicy_clearsFlag(sec, ptype, rule) ==
    /\ Idle
    /\ Cardinality(docs) < MaxDocs
    /\ op' = "AddPolicy" /\ args' = [sec |-> sec, ptype |-> ptype, rule |-> rule]
    /\ pre' = Snapshot
    /\ pc' = "idle"
    /\ \E ok \in BOOLEAN :
         IF ok /\ collExists
         THEN /\ docs' = docs \cup {[savePolicyLine(ptype, rule) EXCEPT !.ID = FreshID(docs)]}
              /\ ret' = RetNil
         ELSE /\ docs' = docs
              /\ ret' = "error: Documents.Create"
    /\ lines' = <<>> /\ policies' = <<>> /\ plan' = <<>> /\ LoadLocalsOff
    /\ saved' = NoSaved
    /\ filtered' = FALSE
    /\ UNCHANGED <<phase, dbExists, collExists, ctor, lastLoad,
                   readerVars, lineVars>>

\* AddPolicy(sec, ptype, rule): one Documents().Create of the rule's line; sec
\* is not read.
AddPolicy(sec, ptype, rule) ==
    /\ Idle
    /\ Cardinality(docs) < MaxDocs
    /\ op' = "AddPolicy" /\ args' = [sec |-> sec, ptype |-> ptype, rule |-> rule]
    /\ pre' = Snapshot
    /\ pc' = "idle"
    /\ \E ok \in BOOLEAN :
         IF ok /\ collExists
         THEN /\ docs' = docs \cup {[savePolicyLine(ptype, rule) EXCEPT !.ID = FreshID(docs)]}
              /\ ret' = RetNil
         ELSE /\ docs' = docs
              /\ ret' = "error: Documents.Create"
    /\ lines' = <<>> /\ policies' = <<>> /\ plan' = <<>> /\ LoadLocalsOff
    /\ saved' = NoSaved
    /\ UNCHANGED <<phase, filtered, dbExists, collExists, ctor, lastLoad,
                   readerVars, lineVars>>

\* ------------------------------------------------------------ removals
\* The query of a removal and what follows it: the query fails, or nothing
\* matched, or the delete loop starts.  The query is issued once; its
\* continuation token is not read.
RemoveAfterQuery(ok, matches) ==
    IF ok /\ collExists
    THEN LET found == Page(matches, NoID).lines
         IN  /\ policies' = found /\ plan' = found
             /\ IF found = <<>>
                THEN pc' = "idle" /\ ret' = RetNil
                ELSE pc' = "Remove:delete" /\ ret' = RetPending
    ELSE /\ policies' = <<>> /\ plan' = <<>>
         /\ pc' = "idle" /\ ret' = "error: Documents.Query"

RemovePolicy(sec, ptype, rule) ==
    /\ Idle
    /\ op' = "RemovePolicy" /\ args' = [sec |-> sec, ptype |-> ptype, rule |-> rule]
    /\ pre' = Snapshot
    /\ \E ok \in BOOLEAN : RemoveAfterQuery(ok, RemovePolicyMatches(docs, ptype, rule))
    /\ lines' = <<>> /\ LoadLocalsOff
    /\ saved' = NoSaved
    /\ UNCHANGED <<phase, filtered, storeVars, ctor, lastLoad, readerVars, lineVars>>

RemoveFilteredPolicy(sec, ptype, fieldIndex, fieldValues) ==
    /\ Idle
    /\ op' = "RemoveFilteredPolicy"
    /\ args' = [sec |-> sec, ptype |-> ptype, fieldIndex |-> fieldIndex,
                fieldValues |-> fieldValues]
    /\ pre' = Snapshot
    /\ \E ok \in BOOLEAN :
         RemoveAfterQuery(ok, RemoveFilteredMatches(docs, ptype, fieldIndex, fieldValues))
    /\ lines' = <<>> /\ LoadLocalsOff
    /\ saved' = NoSaved
    /\ UNCHANGED <<phase, filtered, storeVars, ctor, lastLoad, readerVars, lineVars>>

\* One turn of a removal's delete loop: Document(policy.ID).Delete in the
\* partition of policy.PType.
RemoveDelete ==
    /\ phase = "ready" /\ pc = "Remove:delete"
    /\ \E ok \in BOOLEAN :
         IF ok /\ collExists /\ Head(policies) \in docs
         THEN /\ docs' = docs \ {Head(policies)}
              /\ policies' = Tail(policies)
              /\ IF Tail(policies) = <<>>
                 THEN pc' = "idle" /\ ret' = RetNil
                 ELSE UNCHANGED <<pc, ret>>
         ELSE /\ ret' = "error: Document.Delete" /\ pc' = "idle"
              /\ UNCHANGED <<docs, policies>>
    /\ UNCHANGED <<phase, filtered, dbExists, collExists, op, args, pre, lines, plan,
                   ldFilter, ldLines, ldToken, model, ghostVars, readerVars, lineVars>>

\* ------------------------------------------------------------ a second client
\* Another client of the same collection runs LoadPolicy while this adapter
\* works; it reads the store as LoadFilteredPolicy does with a nil filter.
ReaderAfterRead(ok, token, sofar) ==
    IF ok /\ collExists
    THEN LET r == LoadRead(docs, NilFilter, token, sofar)
         IN  /\ rdLines' = r.lines
             /\ rdToken' = r.continuation
             /\ IF r.continuation # NoID
                THEN rdPc' = "more" /\ rdRet' = RetPending
                ELSE rdPc' = "idle" /\ rdRet' = RetNil
    ELSE /\ rdLines' = sofar /\ rdToken' = token
         /\ rdPc' = "idle" /\ rdRet' = ReadError(NilFilter)

\* The running save has dropped the collection and has not returned.
SaveAfterDrop == pc \in {"SavePolicy:create", "SavePolicy:insert"}

ReaderLoad ==
    /\ phase = "ready" /\ rdPc = "idle"
    /\ rdAfterDrop' = SaveAfterDrop
    /\ \E ok \in BOOLEAN : ReaderAfterRead(ok, NoID, <<>>)
    /\ UNCHANGED <<phase, filtered, storeVars, callVars, localVars, ghostVars, lineVars>>

ReaderMore ==
    /\ phase = "ready" /\ rdPc = "more"
    /\ rdAfterDrop' = rdAfterDrop
    /\ \E ok \in BOOLEAN : ReaderAfterRead(ok, rdToken, rdLines)
    /\ UNCHANGED <<phase, filtered, storeVars, callVars, localVars, ghostVars, lineVars>>

\* ------------------------------------------------------------ inputs
SecOf(ptype) == SubSeq(ptype, 1, 1)

AddPTypes     == {PtP, PtG}
AddRules      == {AB(1), AB(2)}
RemoveRules   == {<<>>, AB(1), AB(2), AB(7)}
\* RemoveFilteredPolicy's fieldIndex and fieldValues.
FieldArgs     == {<<0, <<>>>>, <<0, <<"a">>>>, <<1, <<"b">>>>, <<0, <<"", "b">>>>}

\* ------------------------------------------------------------ specifications
\* The adapter under a sequential caller.
Next ==
    \/ NewAdapter
    \/ NewFilteredAdapter
    \/ createDatabaseIfNotExist_Create
    \/ createCollectionIfNotExist_Read
    \/ createCollectionIfNotExist_Create
    \/ \E m \in LoadModels : LoadPolicy(m)
    \/ \E m \in LoadModels, f \in Filters : LoadFilteredPolicy(m, f)
    \/ LoadMore
    \/ \E m \in Models : SavePolicy(m)
    \/ SaveCreate
    \/ SaveInsert
    \/ \E pt \in AddPTypes, r \in AddRules : AddPolicy(SecOf(pt), pt, r)
    \/ \E pt \in AddPTypes, r \in RemoveRules : RemovePolicy(SecOf(pt), pt, r)
    \/ \E pt \in AddPTypes, fa \in FieldArgs :
          RemoveFilteredPolicy(SecOf(pt), pt, fa[1], fa[2])
    \/ RemoveDelete

Spec == Init /\ [][Next]_vars

ReadyAdapter ==
    /\ phase = "ready" /\ ctor = "NewAdapter"
    /\ dbExists = TRUE /\ collExists = TRUE
    /\ filtered = FALSE /\ lastLoad = "none" /\ saved = NoSaved
    /\ CallOff /\ LocalOff

\* One SavePolicy after another on a populated collection, with a second
\* client loading at any moment.
ConcStores ==
    { {},
      {[savePolicyLine(PtP, <<"b", "b">>) EXCEPT !.ID = 1],
       [savePolicyLine(PtG, <<"b">>) EXCEPT !.ID = 2]},
      {[savePolicyLine(PtP, AB(2)) EXCEPT !.ID = 1],
       [savePolicyLine(PtP, <<"b", "b">>) EXCEPT !.ID = 2],
       [savePolicyLine(PtG, <<"b">>) EXCEPT !.ID = 3]} }

InitConc ==
    /\ ReadyAdapter /\ ReaderOff /\ LineOff
    /\ docs \in ConcStores

NextConc ==
    \/ \E m \in Models : SavePolicy(m)
    \/ SaveCreate
    \/ SaveInsert
    \/ ReaderLoad
    \/ ReaderMore

SpecConc == InitConc /\ [][NextConc]_vars

\* One rule of any length and content, added or saved beside two others and
\* loaded back.
LnModel ==
    LET with(policy) == IF lnFirst THEN <<lnRule>> \o policy ELSE policy \o <<lnRule>>
    IN  CASE lnPType = PtP  -> MkModel(with(<<AB(2)>>), <<>>, <<AB(1)>>)
          [] lnPType = PtP2 -> MkModel(<<AB(2)>>, with(<<>>), <<AB(1)>>)
          [] OTHER          -> MkModel(<<AB(2)>>, <<>>, with(<<AB(1)>>))

\* What the collection holds before the one-rule runs.
RuleStore == {[savePolicyLine(PtG, <<"b", "b">>) EXCEPT !.ID = 1]}

InitRule ==
    /\ ReadyAdapter /\ ReaderOff
    /\ docs = RuleStore
    /\ lnPType \in PTypes
    /\ lnRule \in RulesUpTo(MaxRuleLen)
    /\ lnFirst \in BOOLEAN

NextRule ==
    \/ AddPolicy(SecOf(lnPType), lnPType, lnRule)
    \/ SavePolicy(LnModel)
    \/ SaveCreate
    \/ SaveInsert
    \/ LoadPolicy(EmptyModel)
    \/ LoadMore

SpecRule == InitRule /\ [][NextRule]_vars

\* ------------------------------------------------------------ properties
\* Document d holds rule r of type t as a prefix: v0..v(n-1) are r's values in
\* order and v(n)..v5 are empty.
PrefixDoc(d, t, r) ==
    /\ d.PType = t
    /\ \A i \in 0..5 : Field(d, i) = IF i < Len(r) THEN r[i + 1] ELSE ""

\* A document without its identity.
Strip(d) == [d EXCEPT !.ID = NoID]

\* The triples a load of a saved model should give back: every rule under its
\* type, in the section the type's first character names.
ExpectedPairs(m) == {<<SecOf(pr[2]), pr[2], pr[3]>> : pr \in ModelPairs(m)}

RulesWithin(m, n) == \A pr \in ModelPairs(m) : Len(pr[3]) <= n
NoEmptyValue(m) == \A pr \in ModelPairs(m) : \A i \in DOMAIN pr[3] : pr[3][i] # ""

\* A LoadPolicy that returned nil right after a SavePolicy that returned nil.
LoadedAfterSave ==
    /\ op = "LoadFilteredPolicy" /\ ldFilter.isNil
    /\ pc = "idle" /\ ret = RetNil
    /\ saved.valid

\* C1 as stated: for every model whose rules have 0 to 6 values, SavePolicy
\* followed by LoadPolicy into an empty model gives back exactly the saved
\* (type, values) pairs, each in the section its type's first character names,
\* whatever the store held before.
C1_RoundTripAnyRule ==
    (LoadedAfterSave /\ RulesWithin(saved.model, 6))
        => ModelPairs(model) = ExpectedPairs(saved.model)

\* C1 amended: the same, for the models none of whose rules holds an empty
\* value.
C1_RoundTripNoEmptyValue ==
    (LoadedAfterSave /\ RulesWithin(saved.model, 6) /\ NoEmptyValue(saved.model))
        => ModelPairs(model) = ExpectedPairs(saved.model)

\* C1 witness: a rule of six values under p2, saved over a store that held
\* another document, is loaded back in section p.
C1_Witness ==
    /\ LoadedAfterSave
    /\ lnPType = PtP2 /\ Len(lnRule) = 6 /\ \A i \in 1..6 : lnRule[i] # ""
    /\ pre.docs # {} /\ Cardinality(docs) = 3
    /\ model[SecP][PtP2] = <<lnRule>>

\* C7: every document AddPolicy or SavePolicy writes for a rule of n <= 6 values
\* under type t has pType = t, v0..v(n-1) the rule's values in order and
\* v(n)..v5 empty.
C7_StoredFieldsArePrefix ==
    /\ (op = "AddPolicy" /\ ret = RetNil /\ Len(args.rule) <= 6)
          => \E d \in docs :
                /\ docs \ pre.docs = {d}
                /\ PrefixDoc(d, args.ptype, args.rule)
    /\ (/\ op = "SavePolicy" /\ RulesWithin(args.model, 6)
        /\ \/ pc = "SavePolicy:insert"
           \/ pc = "idle" /\ ret \in {RetNil, "error: Documents.Create"})
          => /\ \A d \in docs : \E pr \in ModelPairs(args.model) : PrefixDoc(d, pr[2], pr[3])
             /\ (pc = "idle" /\ ret = RetNil)
                   => \A pr \in ModelPairs(args.model) :
                         \E d \in docs : PrefixDoc(d, pr[2], pr[3])

\* C7 witness: AddPolicy has written a rule of two values, and v2 is empty.
C7_Witness ==
    /\ op = "AddPolicy" /\ ret = RetNil
    /\ Len(args.rule) = 2 /\ args.rule[1] # "" /\ args.rule[2] # ""
    /\ \E d \in docs \ pre.docs : d.V1 = args.rule[2] /\ d.V2 = ""

\* C2: a SavePolicy called while the filtered flag is true returns the
\* "cannot save a filtered policy" error and writes nothing: the collection is
\* not dropped, no document is created or deleted, the flag is as it was.
C2_FilteredSaveRejected ==
    (op = "SavePolicy" /\ pre.filtered)
        => /\ pc = "idle" /\ ret = ErrFiltered
           /\ docs = pre.docs /\ collExists = pre.coll
           /\ filtered = pre.filtered

\* C2 witness: a non-empty model was refused over a non-empty collection.
C2_Witness ==
    /\ op = "SavePolicy" /\ pre.filtered /\ ret = ErrFiltered
    /\ args.model # EmptyModel /\ docs # {}

\* C3: on a live adapter IsFiltered is true when the most recent load had a
\* filter and false when it was LoadPolicy or a load with a nil filter,
\* whatever was called since; and a load with a nil filter that returns nil has
\* read every document of the collection, across partitions and pages.
C3_FlagFollowsLastLoad ==
    /\ (phase = "ready" /\ lastLoad = "filter") => IsFiltered
    /\ (phase = "ready" /\ lastLoad = "nil") => ~IsFiltered
    /\ (op = "LoadFilteredPolicy" /\ lastLoad = "nil" /\ pc = "idle" /\ ret = RetNil)
          => /\ {ldLines[i] : i \in DOMAIN ldLines} = docs
             /\ Len(ldLines) = Cardinality(docs)

\* C3 witness: on an adapter built by NewFilteredAdapter a load with a nil
\* filter has read three documents of two partitions, and the flag is false.
C3_Witness ==
    /\ ctor = "NewFilteredAdapter" /\ lastLoad = "nil" /\ ~IsFiltered
    /\ op = "LoadFilteredPolicy" /\ pc = "idle" /\ ret = RetNil
    /\ Len(ldLines) = 3
    /\ \E i, j \in DOMAIN ldLines : ldLines[i].PType # ldLines[j].PType

\* The claim's own reading of RemovePolicy's matches.
ClaimedRemoveMatch(d, ptype, rule) ==
    /\ d.PType = ptype
    /\ \A n \in 1..Len(rule) : HasField(n - 1) /\ Field(d, n - 1) = rule[n]

\* C4 as stated: a RemovePolicy that returns nil has deleted every document
\* whose pType is ptype and whose v0..v(n-1) are the rule's values, and no
\* other.
C4_RemoveDeletesEveryMatch ==
    (op = "RemovePolicy" /\ pc = "idle" /\ ret = RetNil)
        => docs = {d \in pre.docs : ~ClaimedRemoveMatch(d, args.ptype, args.rule)}

\* The claim's own reading of RemoveFilteredPolicy's matches.
ClaimedFilteredMatch(d, ptype, fieldIndex, values) ==
    /\ d.PType = ptype
    /\ \A i \in fieldIndex..(fieldIndex + Len(values) - 1) :
          values[i - fieldIndex + 1] # "" => (HasField(i) /\ Field(d, i) = values[i - fieldIndex + 1])

\* C5 as stated: a RemoveFilteredPolicy that returns nil has deleted all and
\* only the documents of ptype whose field v<i> equals values[i-fieldIndex] at
\* every position of the range with a non-empty value.
C5_RemoveFilteredDeletesEveryMatch ==
    (op = "RemoveFilteredPolicy" /\ pc = "idle" /\ ret = RetNil)
        => docs = {d \in pre.docs :
                     ~ClaimedFilteredMatch(d, args.ptype, args.fieldIndex, args.fieldValues)}

\* C6 as stated: construction returns a usable adapter whenever the client
\* connects, every existence check answers "ok" or "not found" and no create
\* fails; a missing database or collection is created on demand.  (Stated for
\* the runs in which the create through the nil a.db does not panic, so that
\* what refutes it is in the adapter's own code.)
C6_ConstructionSucceeds ==
    (/\ op \in {"NewAdapter", "NewFilteredAdapter"}
     /\ pc = "idle"
     /\ args.connect
     /\ args.dbRead \in {"ok", "notfound"} /\ args.dbCreate # "failed"
     /\ args.collRead \in {"ok", "notfound", "none"}
     /\ args.collCreate \notin {"failed", "panic"})
        => phase = "ready" /\ dbExists /\ collExists

\* The documents the first k lines of the plan make in a collection that was
\* just recreated.
Inserted(k) == {[plan[i] EXCEPT !.ID = i] : i \in 1..k}

\* C8: when the k-th insert of SavePolicy, or the k-th delete of a removal,
\* fails, the operation returns that error, does no further insert or delete
\* and rolls nothing back: the store is what the first k-1 sub-operations made
\* it.  An operation that returns nil has done them all.
C8_PartialFailureIsLeft ==
    /\ (op = "SavePolicy" /\ pc = "idle" /\ ~pre.filtered)
          => /\ ret \in {RetNil} \cup StoreErrors
             /\ ret = RetNil => (lines = <<>> /\ docs = Inserted(Len(plan)))
             /\ ret = "error: Documents.Create"
                   => LET k == Len(plan) - Len(lines)
                      IN  /\ lines # <<>>
                          /\ lines = SubSeq(plan, k + 1, Len(plan))
                          /\ docs = Inserted(k)
    /\ (op \in {"RemovePolicy", "RemoveFilteredPolicy"} /\ pc = "idle")
          => /\ ret \in {RetNil} \cup StoreErrors
             /\ ret = RetNil
                   => (policies = <<>> /\ docs = pre.docs \ {plan[i] : i \in DOMAIN plan})
             /\ ret = "error: Document.Delete"
                   => LET k == Len(plan) - Len(policies)
                      IN  /\ policies # <<>>
                          /\ policies = SubSeq(plan, k + 1, Len(plan))
                          /\ docs = pre.docs \ {plan[i] : i \in 1..k}
                          /\ \A i \in DOMAIN policies : policies[i] \in docs

\* C8 witness: the second of three inserts failed over a collection that held
\* documents: they are gone and one new document is stored.
C8_Witness ==
    /\ op = "SavePolicy" /\ pc = "idle" /\ ret = "error: Documents.Create"
    /\ pre.docs # {} /\ Len(plan) = 3 /\ Len(lines) = 2
    /\ Cardinality(docs) = 1

\* The lines of a model, in any order.
ModelLines(m) == {savePolicyLine(pr[2], pr[3]) : pr \in ModelPairs(m)}

\* C9: SavePolicy drops, recreates and inserts one line at a time, the rules
\* of section p before those of section g; a second client whose load reads
\* only after the drop sees no document but lines of the model being saved,
\* and never more of them than are inserted.
C9_ReaderSeesOnlyNewRules ==
    /\ (op = "SavePolicy" /\ pc \in {"SavePolicy:insert", "idle"})
          => \A i, j \in DOMAIN plan :
                (i < j) => ~(SecOf(plan[i].PType) = SecG /\ SecOf(plan[j].PType) = SecP)
    /\ rdAfterDrop
          => /\ \A i \in DOMAIN rdLines : Strip(rdLines[i]) \in ModelLines(args.model)
             /\ Len(rdLines) <= Len(plan)

\* C9 witness: while a save of three rules is still inserting over a collection
\* that held other documents, a load has returned nil with one rule only.
C9_Witness ==
    /\ pc = "SavePolicy:insert" /\ Len(plan) = 3
    /\ \E d \in pre.docs : Strip(d) \notin ModelLines(args.model)
    /\ rdAfterDrop /\ rdPc = "idle" /\ rdRet = RetNil
    /\ Len(rdLines) = 1

\* C10: an adapter built by NewFilteredAdapter is filtered before any load,
\* only a load changes the flag, and so every SavePolicy on it is refused, and
\* writes nothing, until a load with a nil filter is called.
C10_FilteredAdapterRefusesSave ==
    /\ [](  (phase = "ready" /\ ctor = "NewFilteredAdapter" /\ lastLoad # "nil")
              => /\ IsFiltered
                 /\ op = "SavePolicy" => (ret = ErrFiltered /\ pc = "idle" /\ docs = pre.docs))
    /\ [][ (phase = "ready" /\ filtered' # filtered)
              => (pc = "idle" /\ op' = "LoadFilteredPolicy" /\ lastLoad' # "none") ]_vars

\* C10 witness: on such an adapter, after an AddPolicy, a RemovePolicy and a
\* load with a filter, a SavePolicy was refused.
C10_Witness ==
    /\ ctor = "NewFilteredAdapter" /\ lastLoad = "filter"
    /\ op = "SavePolicy" /\ ret = ErrFiltered
    /\ docs # {} /\ args.model # EmptyModel

=============================================================================
